---- MODULE Spec2Model ----
(***************************************************************************)
(* Model of the hello-bot user upsert path.                                *)
(*                                                                         *)
(* Every inbound event is handled by one task.  DatabaseMiddleware opens   *)
(* a session for it, the handler calls UserService.get_or_create_user (or  *)
(* activate_user / deactivate_user), and the middleware commits when the   *)
(* handler returned and rolls back when it raised.  get_or_create_user of  *)
(* app/handlers/start.py is the same algorithm on a bare session.          *)
(*                                                                         *)
(* The store is the "users" table of a PostgreSQL database at READ         *)
(* COMMITTED: a statement sees the committed rows, an UPDATE holds its row *)
(* until the transaction ends, an INSERT waits for an uncommitted INSERT   *)
(* of the same unique key, and now() is the time at which the transaction  *)
(* began, which the session does with its first statement.                 *)
(*                                                                         *)
(* Three further specifications share the variables: DisplaySpec reads     *)
(* User.display_name, CacheSpec runs get_user_by_telegram_id over          *)
(* CacheService (Redis with expiry, or its memory cache) beside one        *)
(* upsert, and HandlerSpec runs start_handler of app/handlers/start.py     *)
(* with its reply and with failures of each awaited call.                  *)
(***************************************************************************)
EXTENDS Integers, FiniteSets, Sequences, TLC

VARIABLES
    db,        \* committed rows of table "users"
    nextId,    \* next value of the primary-key sequence of users.id
    clock,     \* database clock, read by func.now()
    pc,        \* per task: position in the handling of its event
    op,        \* per task: the operation the event asks for
    tg,        \* per task: telegram_user, the observed profile
    user,      \* per task: the User object held by the session (or NoUser)
    loaded,    \* per task: the row as the lookup returned it (or NoUser)
    updated,   \* per task: result of _update_user_if_changed
    pend,      \* per task: rows written by the open transaction, uncommitted
    txnTime,   \* per task: now() of the open transaction
    sql,       \* per task: statements the session has executed in its transaction
    logged,    \* per task: message passed to log_user_interaction
    result,    \* per task: the User the service call returned (or NoUser)
    raised,    \* per task: the exception the service call raised (or NoneV)
    events,    \* number of events accepted so far
    replies,   \* per task: the texts passed to message.answer for its event
    redisAvailable, \* CacheService._redis_available
    redis,     \* the Redis keyspace: per key the pickled value and its expiry
    memory,    \* CacheService._memory_cache
    wall,      \* wall-clock time in seconds, as Redis counts expiry
    cachedAt,  \* per key: when a lookup last wrote a record back into the cache
    lk,        \* the get_user_by_telegram_id call in progress, or the last one
    obj,       \* a User object whose display_name is read
    shown,     \* the value its display_name property returned (or NoneV)
    cs,        \* CacheService as its callers use it: the calls made on one key
    wh,        \* the webhook endpoint: the request in hand and its response
    app,       \* main(): its position, the signal, and what it has shut down
    runner     \* BotRunner of scripts/dev_run.py and its child processes

\* the state of the processes around the bot
procs == <<cs, wh, app, runner>>

\* the state of the cache service, of the cached lookup and of the User object
aux == <<replies, redisAvailable, redis, memory, wall, cachedAt, lk, obj, shown, procs>>

\* the state of the store and of the tasks that handle events
base == <<db, nextId, clock, pc, op, tg, user, loaded, updated, pend,
          txnTime, sql, logged, result, raised, events>>

vars == <<db, nextId, clock, pc, op, tg, user, loaded, updated, pend,
          txnTime, sql, logged, result, raised, events, aux>>

-----------------------------------------------------------------------------
(* Bounds and input domains *)

MaxEvents == 2

Tasks == {"t1", "t2"}

TelegramIds == {101, 102}

NoneV == "None"

\* values a nullable String column / an optional Telegram field can take
Values == {NoneV, "", "a"}

TrackedFields == {"username", "first_name", "last_name", "language_code"}

\* aiogram types.User as the handlers read it.  User 101 is observed with at
\* most one optional field present (an empty string only as username), user
\* 102 with none.
Present(u) == {f \in TrackedFields : u[f] # NoneV}

TelegramUsers ==
    {u \in [id : TelegramIds, username : Values, first_name : Values \ {""},
            last_name : Values \ {""}, language_code : Values \ {""}] :
        /\ Cardinality(Present(u)) <= 1
        /\ u.id # 101 => Present(u) = {}}

\* Python's None where a User object is expected
NoUser == [id |-> 0]

NoWrite == [kind |-> "none"]

-----------------------------------------------------------------------------
(* The store *)

\* select(User).where(User.telegram_id == tid): the committed rows with that key
RowsByTelegramId(tid) == {r \in db : r.telegram_id = tid}

\* result.scalar_one_or_none()
ScalarOneOrNone(rows) == IF rows = {} THEN NoUser ELSE CHOOSE r \in rows : TRUE

\* (variant of UniqueViolation: the unique index on telegram_id is missing)
NoUniqueConstraint(tid) == FALSE

\* users.telegram_id is declared unique=True: an INSERT of a key that a committed
\* row already holds is rejected (IntegrityError)
UniqueViolation(tid) == RowsByTelegramId(tid) # {}

\* an INSERT of a key that another open transaction has inserted waits for
\* that transaction to end
InsertWaits(t, tid) ==
    \E o \in Tasks \ {t} : pend[o].kind = "insert" /\ pend[o].row.telegram_id = tid

\* an UPDATE of a row that another open transaction has updated waits for
\* that transaction to end
UpdateWaits(t, id) ==
    \E o \in Tasks \ {t} : pend[o].kind = "update" /\ pend[o].id = id

\* (variant of Committed: an UPDATE that clears is_active removes the row)
CommittedDeletesInactive(rows, p) ==
    CASE p.kind = "insert" -> rows \cup {p.row}
      [] p.kind = "update" ->
            {IF r.id = p.id
                THEN [c \in DOMAIN r |-> IF c \in DOMAIN p.vals THEN p.vals[c] ELSE r[c]]
                ELSE r :
             r \in {q \in rows : ~(q.id = p.id /\ "is_active" \in DOMAIN p.vals
                                     /\ ~p.vals.is_active)}}
      [] OTHER -> rows

\* COMMIT: the transaction's rows become the committed rows
Committed(rows, p) ==
    CASE p.kind = "insert" -> rows \cup {p.row}
      [] p.kind = "update" ->
            {IF r.id = p.id
                THEN [c \in DOMAIN r |-> IF c \in DOMAIN p.vals THEN p.vals[c] ELSE r[c]]
                ELSE r : r \in rows}
      [] OTHER -> rows

-----------------------------------------------------------------------------
(* UserService *)

\* (variant of FieldChanged: every field is taken as changed)
FieldChangedAlways(stored, observed) == TRUE

\* (variant of FieldChanged: an absent value and an empty string compare equal)
FieldChangedNoneIsEmpty(stored, observed) ==
    (IF stored = NoneV THEN "" ELSE stored) # (IF observed = NoneV THEN "" ELSE observed)

\* one comparison of _update_user_if_changed: user.f != telegram_user.f
FieldChanged(stored, observed) == stored # observed

\* the fields _update_user_if_changed assigns
ChangedFields(u, tgu) == {f \in TrackedFields : FieldChanged(u[f], tgu[f])}

\* (variant of UpdateUserIfChanged: the primary key is overwritten with the
\* Telegram id)
UpdateUserIfChangedSetsId(u, tgu) ==
    [user    |-> [c \in DOMAIN u |->
                     IF c = "id" /\ ChangedFields(u, tgu) # {} THEN tgu.id
                     ELSE IF c \in ChangedFields(u, tgu) THEN tgu[c] ELSE u[c]],
     updated |-> ChangedFields(u, tgu) # {}]

\* (variant of UpdateUserIfChanged: a changed user is switched active again)
UpdateUserIfChangedReactivates(u, tgu) ==
    [user    |-> [c \in DOMAIN u |->
                     IF c = "is_active" /\ ChangedFields(u, tgu) # {} THEN TRUE
                     ELSE IF c \in ChangedFields(u, tgu) THEN tgu[c] ELSE u[c]],
     updated |-> ChangedFields(u, tgu) # {}]

\* _update_user_if_changed: the object after the assignments, and the flag
UpdateUserIfChanged(u, tgu) ==
    [user    |-> [c \in DOMAIN u |->
                     IF c \in ChangedFields(u, tgu) THEN tgu[c] ELSE u[c]],
     updated |-> ChangedFields(u, tgu) # {}]

\* (variant of NewUser: language_code is not passed to the constructor)
NewUserWithoutLanguage(tgu, id, now) ==
    [id |-> id, telegram_id |-> tgu.id, username |-> tgu.username,
     first_name |-> tgu.first_name, last_name |-> tgu.last_name,
     language_code |-> NoneV, is_active |-> TRUE,
     created_at |-> now, updated_at |-> now]

\* User(...) of _create_new_user, with the column defaults the INSERT fills in
NewUser(tgu, id, now) ==
    [id |-> id, telegram_id |-> tgu.id, username |-> tgu.username,
     first_name |-> tgu.first_name, last_name |-> tgu.last_name,
     language_code |-> tgu.language_code, is_active |-> TRUE,
     created_at |-> now, updated_at |-> now]

\* (variant of DirtyColumns: every attribute of a loaded object counts as dirty)
DirtyColumnsAll(u, was) == DOMAIN u \ {"updated_at"}

\* session.flush() of a loaded object: the UPDATE sets the attributes whose
\* value differs from the loaded one, and updated_at by onupdate=func.now()
DirtyColumns(u, was) == {c \in DOMAIN u \ {"updated_at"} : u[c] # was[c]}

\* (variant of FlushedUpdate: updated_at has no onupdate)
FlushedUpdateWithoutOnUpdate(u, was, now) ==
    IF DirtyColumns(u, was) = {}
        THEN NoWrite
        ELSE [kind |-> "update", id |-> was.id,
              vals |-> [c \in DirtyColumns(u, was) |-> u[c]]]

FlushedUpdate(u, was, now) ==
    IF DirtyColumns(u, was) = {}
        THEN NoWrite
        ELSE [kind |-> "update", id |-> was.id,
              vals |-> [c \in DirtyColumns(u, was) \cup {"updated_at"} |->
                          IF c = "updated_at" THEN now ELSE u[c]]]

-----------------------------------------------------------------------------
(* User.full_name and User.display_name *)

\* values the name columns take where both properties are read
NameValues == {NoneV, "", "a", "b"}

\* truth value of an optional string: None and "" are false
Truthy(v) == v # NoneV /\ v # ""

\* a or b
Or(a, b) == IF Truthy(a) THEN a ELSE b

\* " ".join(parts)
RECURSIVE JoinSpace(_)
JoinSpace(parts) ==
    IF parts = <<>> THEN ""
    ELSE IF Len(parts) = 1 THEN Head(parts)
    ELSE Head(parts) \o " " \o JoinSpace(Tail(parts))

\* User.full_name: the parts that are true, joined by a space
FullName(u) == JoinSpace(SelectSeq(<<u.first_name, u.last_name>>, Truthy))

\* (variant of DisplayName: the name __str__ shows, which leaves last_name out)
DisplayNameOfStr(u) ==
    Or(u.username, Or(u.first_name, "User" \o ToString(u.telegram_id)))

\* (variant of DisplayName: no fallback to the telegram id)
DisplayNameNoFallback(u) == Or(u.username, FullName(u))

\* User.display_name
DisplayName(u) ==
    Or(u.username, Or(FullName(u), "User" \o ToString(u.telegram_id)))

-----------------------------------------------------------------------------
(* Initial state: no event in progress *)

\* the table as earlier runs can have left it: empty, or holding one user
InitialTables == {{}} \cup {{NewUser(u, 1, 1)} : u \in TelegramUsers}

Init ==
    /\ db \in InitialTables
    /\ nextId = Cardinality(db) + 1
    /\ clock = Cardinality(db)
    /\ pc = [t \in Tasks |-> "idle"]
    /\ op = [t \in Tasks |-> NoneV]
    /\ tg = [t \in Tasks |-> NoUser]
    /\ user = [t \in Tasks |-> NoUser]
    /\ loaded = [t \in Tasks |-> NoUser]
    /\ updated = [t \in Tasks |-> FALSE]
    /\ pend = [t \in Tasks |-> NoWrite]
    /\ txnTime = [t \in Tasks |-> 0]
    /\ sql = [t \in Tasks |-> <<>>]
    /\ logged = [t \in Tasks |-> NoneV]
    /\ result = [t \in Tasks |-> NoUser]
    /\ raised = [t \in Tasks |-> NoneV]
    /\ events = 0

\* no reply sent
NoReplies == replies = [t \in Tasks |-> <<>>]

\* f"user:telegram_id:{telegram_id}"
CacheKey(tid) == "user:telegram_id:" \o ToString(tid)

CacheKeys == {CacheKey(tid) : tid \in TelegramIds}

\* a key Redis does not hold
NoEntry == [value |-> NoUser, expires |-> 0]

\* no get_user_by_telegram_id call made yet
IdleLookup ==
    [pc |-> "idle", tid |-> 0, cached |-> NoUser, found |-> NoUser,
     result |-> NoUser, queries |-> 0, getFailed |-> FALSE, setFailed |-> FALSE,
     at |-> 0, stored |-> NoUser, calls |-> 0]

\* CacheService() before any call: nothing cached
EmptyCache ==
    /\ redis = [k \in CacheKeys |-> NoEntry]
    /\ memory = [k \in CacheKeys |-> NoUser]
    /\ cachedAt = [k \in CacheKeys |-> 0]
    /\ wall = 0
    /\ lk = IdleLookup

\* no User object under inspection
NoObject == obj = NoUser /\ shown = NoneV

\* nothing but the bot's handlers is running
NoProcs ==
    /\ cs = [pc |-> "idle"]
    /\ wh = [pc |-> "idle"]
    /\ app = [pc |-> "idle"]
    /\ runner = [pc |-> "idle"]

\* no reply, no cache, no Redis
AuxInit == NoReplies /\ redisAvailable = FALSE /\ EmptyCache /\ NoObject /\ NoProcs

\* the events are handled with the cache service unused
UpsertInit == Init /\ AuxInit

-----------------------------------------------------------------------------
(* get_or_create_user *)

\* lines 35-42: the lookup, which begins the session's transaction, and on a
\* hit the in-memory comparison that follows it without suspending
GetOrCreateSelect(t, tgu) ==
    /\ pc[t] \in {"idle", "done", "failed"}
    /\ events < MaxEvents
    /\ events' = events + 1
    /\ clock' = clock + 1
    /\ txnTime' = [txnTime EXCEPT ![t] = clock + 1]
    /\ op' = [op EXCEPT ![t] = "upsert"]
    /\ tg' = [tg EXCEPT ![t] = tgu]
    /\ sql' = [sql EXCEPT ![t] = <<"select">>]
    /\ LET found == ScalarOneOrNone(RowsByTelegramId(tgu.id)) IN
         /\ loaded' = [loaded EXCEPT ![t] = found]
         /\ IF found # NoUser
               THEN LET r == UpdateUserIfChanged(found, tgu) IN
                      /\ user' = [user EXCEPT ![t] = r.user]
                      /\ updated' = [updated EXCEPT ![t] = r.updated]
                      /\ pc' = [pc EXCEPT ![t] = IF r.updated THEN "flush" ELSE "return"]
                      /\ result' = [result EXCEPT ![t] = IF r.updated THEN NoUser ELSE r.user]
               ELSE /\ user' = [user EXCEPT ![t] = NoUser]
                    /\ updated' = [updated EXCEPT ![t] = FALSE]
                    /\ pc' = [pc EXCEPT ![t] = "create"]
                    /\ result' = [result EXCEPT ![t] = NoUser]
    /\ logged' = [logged EXCEPT ![t] = NoneV]
    /\ raised' = [raised EXCEPT ![t] = NoneV]
    /\ UNCHANGED <<db, nextId, pend>>
    /\ UNCHANGED aux

\* lines 43-52: flush of the changed object, then the "Updated user info" log
FlushUpdate(t) ==
    /\ pc[t] = "flush"
    /\ op[t] = "upsert"
    /\ ~UpdateWaits(t, loaded[t].id)
    /\ LET w == FlushedUpdate(user[t], loaded[t], txnTime[t])
           u == IF w = NoWrite THEN user[t]
                ELSE [user[t] EXCEPT !.updated_at = txnTime[t]] IN
         /\ pend' = [pend EXCEPT ![t] = w]
         /\ sql' = [sql EXCEPT ![t] = IF w = NoWrite THEN @ ELSE Append(@, "update")]
         /\ user' = [user EXCEPT ![t] = u]
         /\ result' = [result EXCEPT ![t] = u]
    /\ logged' = [logged EXCEPT ![t] = "Updated user info"]
    /\ pc' = [pc EXCEPT ![t] = "return"]
    /\ UNCHANGED <<db, nextId, clock, op, tg, loaded, updated, txnTime, raised, events>>
    /\ UNCHANGED aux

\* lines 53-62 and _create_new_user: session.add, flush (the INSERT), log
CreateNewUser(t) ==
    /\ pc[t] = "create"
    /\ ~InsertWaits(t, tg[t].id)
    /\ nextId' = nextId + 1
    /\ IF UniqueViolation(tg[t].id)
          THEN /\ pc' = [pc EXCEPT ![t] = "raise"]
               /\ raised' = [raised EXCEPT ![t] = "IntegrityError"]
               /\ UNCHANGED <<pend, sql, user, logged, result>>
          ELSE LET u == NewUser(tg[t], nextId, txnTime[t]) IN
                 /\ pend' = [pend EXCEPT ![t] = [kind |-> "insert", row |-> u]]
                 /\ sql' = [sql EXCEPT ![t] = Append(@, "insert")]
                 /\ user' = [user EXCEPT ![t] = u]
                 /\ logged' = [logged EXCEPT ![t] = "Created new user"]
                 /\ result' = [result EXCEPT ![t] = u]
                 /\ pc' = [pc EXCEPT ![t] = "return"]
                 /\ UNCHANGED raised
    /\ UNCHANGED <<db, clock, op, tg, loaded, updated, txnTime, events>>
    /\ UNCHANGED aux

-----------------------------------------------------------------------------
(* activate_user / deactivate_user, on a user the caller has looked up *)

LookupForSetActive(t, tid, o) ==
    /\ pc[t] \in {"idle", "done", "failed"}
    /\ events < MaxEvents
    /\ events' = events + 1
    /\ clock' = clock + 1
    /\ txnTime' = [txnTime EXCEPT ![t] = clock + 1]
    /\ op' = [op EXCEPT ![t] = o]
    /\ sql' = [sql EXCEPT ![t] = <<"select">>]
    /\ LET found == ScalarOneOrNone(RowsByTelegramId(tid)) IN
         /\ loaded' = [loaded EXCEPT ![t] = found]
         /\ user' = [user EXCEPT ![t] = found]
         /\ pc' = [pc EXCEPT ![t] = IF found # NoUser THEN "set_active" ELSE "return"]
    /\ tg' = [tg EXCEPT ![t] = NoUser]
    /\ updated' = [updated EXCEPT ![t] = FALSE]
    /\ logged' = [logged EXCEPT ![t] = NoneV]
    /\ result' = [result EXCEPT ![t] = NoUser]
    /\ raised' = [raised EXCEPT ![t] = NoneV]
    /\ UNCHANGED <<db, nextId, pend>>
    /\ UNCHANGED aux

\* user.is_active = True / False, then flush and log
SetActive(t, o, active) ==
    /\ pc[t] = "set_active"
    /\ op[t] = o
    /\ ~UpdateWaits(t, loaded[t].id)
    /\ LET a == [user[t] EXCEPT !.is_active = active]
           w == FlushedUpdate(a, loaded[t], txnTime[t])
           u == IF w = NoWrite THEN a ELSE [a EXCEPT !.updated_at = txnTime[t]] IN
         /\ pend' = [pend EXCEPT ![t] = w]
         /\ sql' = [sql EXCEPT ![t] = IF w = NoWrite THEN @ ELSE Append(@, "update")]
         /\ user' = [user EXCEPT ![t] = u]
         /\ result' = [result EXCEPT ![t] = u]
    /\ logged' = [logged EXCEPT ![t] = IF active THEN "Activated user" ELSE "Deactivated user"]
    /\ pc' = [pc EXCEPT ![t] = "return"]
    /\ UNCHANGED <<db, nextId, clock, op, tg, loaded, updated, txnTime, raised, events>>
    /\ UNCHANGED aux

\* (variant of ActivateUser: the flag is cleared)
ActivateUserClearsFlag(t) == SetActive(t, "activate", FALSE)

\* activate_user
ActivateUser(t) == SetActive(t, "activate", TRUE)

\* deactivate_user
DeactivateUser(t) == SetActive(t, "deactivate", FALSE)

-----------------------------------------------------------------------------
(* DatabaseMiddleware *)

\* what session.commit() flushes before the COMMIT: the changes of a loaded
\* object that no earlier flush has written
FlushedAtCommit(t) ==
    IF pend[t] # NoWrite \/ loaded[t] = NoUser
        THEN NoWrite
        ELSE FlushedUpdate(user[t], loaded[t], txnTime[t])

\* the handler returned: session.commit()
Commit(t) ==
    /\ pc[t] = "return"
    /\ LET late == FlushedAtCommit(t)
           w == IF late = NoWrite THEN pend[t] ELSE late IN
         /\ late # NoWrite => ~UpdateWaits(t, late.id)
         /\ sql' = [sql EXCEPT ![t] = IF late = NoWrite THEN @ ELSE Append(@, "update")]
         /\ db' = Committed(db, w)
    /\ pend' = [pend EXCEPT ![t] = NoWrite]
    /\ pc' = [pc EXCEPT ![t] = "done"]
    /\ UNCHANGED <<nextId, clock, op, tg, user, loaded, updated, txnTime,
                   logged, result, raised, events>>
    /\ UNCHANGED aux

\* (variant of Rollback: the writes of the failed event are committed)
RollbackPersists(t) ==
    /\ pc[t] = "raise"
    /\ db' = Committed(db, pend[t])
    /\ pend' = [pend EXCEPT ![t] = NoWrite]
    /\ pc' = [pc EXCEPT ![t] = "failed"]
    /\ UNCHANGED <<nextId, clock, op, tg, user, loaded, updated, txnTime, sql,
                   logged, result, raised, events>>
    /\ UNCHANGED aux

\* the handler raised: session.rollback(), and the exception goes on
Rollback(t) ==
    /\ pc[t] = "raise"
    /\ pend' = [pend EXCEPT ![t] = NoWrite]
    /\ pc' = [pc EXCEPT ![t] = "failed"]
    /\ UNCHANGED <<db, nextId, clock, op, tg, user, loaded, updated, txnTime, sql,
                   logged, result, raised, events>>
    /\ UNCHANGED aux

-----------------------------------------------------------------------------

Next ==
    \E t \in Tasks :
        \/ \E tgu \in TelegramUsers : GetOrCreateSelect(t, tgu)
        \/ FlushUpdate(t)
        \/ CreateNewUser(t)
        \/ \E tid \in TelegramIds, o \in {"activate", "deactivate"} :
               LookupForSetActive(t, tid, o)
        \/ ActivateUser(t)
        \/ DeactivateUser(t)
        \/ Commit(t)
        \/ Rollback(t)

Spec == UpsertInit /\ [][Next]_vars

-----------------------------------------------------------------------------
(* Reading display_name of a User object whose names are assigned *)

\* User objects with every combination of username, first_name and last_name
DisplayUsers ==
    {NewUser(u, 1, 1) :
        u \in [id : TelegramIds, username : NameValues, first_name : NameValues,
               last_name : NameValues, language_code : {NoneV}]}

DisplayInit ==
    /\ Init
    /\ db = {}
    /\ NoReplies /\ redisAvailable = FALSE /\ EmptyCache
    /\ obj \in DisplayUsers
    /\ shown = NoneV
    /\ NoProcs

\* user.display_name
ReadDisplayName ==
    /\ shown = NoneV
    /\ shown' = DisplayName(obj)
    /\ UNCHANGED <<base, replies, redisAvailable, redis, memory, wall, cachedAt, lk, obj, procs>>

\* user.username = v, user.first_name = v or user.last_name = v
AssignName(f, v) ==
    /\ obj[f] # v
    /\ obj' = [obj EXCEPT ![f] = v]
    /\ shown' = NoneV
    /\ UNCHANGED <<base, replies, redisAvailable, redis, memory, wall, cachedAt, lk, procs>>

DisplayNext ==
    \/ ReadDisplayName
    \/ \E f \in {"username", "first_name", "last_name"}, v \in NameValues :
           AssignName(f, v)

DisplaySpec == DisplayInit /\ [][DisplayNext]_vars

-----------------------------------------------------------------------------
(* CacheService and the cached lookup get_user_by_telegram_id *)

\* ttl=300 of the write-back, in seconds
Ttl == 300

MaxLookups == 2

MaxTicks == 2

\* the time that passes in one step of the wall clock
TickSeconds == Ttl \div 2

\* what Redis answers to GET: the value of a key that has not expired
RedisGet(key) ==
    IF redis[key].value # NoUser /\ wall < redis[key].expires
        THEN redis[key].value
        ELSE NoUser

\* CacheService.get: Redis when it is available, the memory cache when it is
\* not or when the Redis call (or pickle.loads) raises
CacheGet(key, fails) ==
    IF redisAvailable
        THEN IF fails THEN memory[key] ELSE RedisGet(key)
        ELSE memory[key]

\* CacheService.set, the Redis keyspace after it: SET key value EX ttl
RedisAfterSet(key, value, ttl, fails) ==
    IF redisAvailable /\ ~fails
        THEN [redis EXCEPT ![key] = [value |-> value, expires |-> wall + ttl]]
        ELSE redis

\* CacheService.set, the memory cache after it: written when Redis is not
\* available or the Redis call raises; ttl is not used
MemoryAfterSet(key, value, fails) ==
    IF redisAvailable /\ ~fails
        THEN memory
        ELSE [memory EXCEPT ![key] = value]

\* (variant of Hit: a cached value is never taken)
HitNever(cached) == FALSE

\* `if cached_user:`
Hit(cached) == cached # NoUser

\* the profiles the writer observes while lookups run: user 101 with any username
CacheProfiles == {u \in TelegramUsers : u.id = 101 /\ Present(u) \subseteq {"username"}}

CacheTables == {{}} \cup {{NewUser(u, 1, 1)} : u \in CacheProfiles}

\* the telegram ids looked up
CacheIds == {u.id : u \in CacheProfiles}

\* the task whose upsert writes the store
Writer == "t1"

\* the one event the writer handles: get_or_create_user of a profile
WriterUpsert(tgu) == pc[Writer] = "idle" /\ GetOrCreateSelect(Writer, tgu)

\* the cache service after initialize(): on Redis or on its memory cache
CacheInit ==
    /\ Init
    /\ db \in CacheTables
    /\ NoReplies
    /\ redisAvailable \in BOOLEAN
    /\ EmptyCache
    /\ NoObject
    /\ NoProcs

\* lines 130-134: the call begins, reads the cache and returns on a hit
LookupCacheGet(tid, fails) ==
    /\ lk.pc \in {"idle", "returned"}
    /\ lk.calls < MaxLookups
    /\ fails => redisAvailable
    /\ LET c == CacheGet(CacheKey(tid), fails) IN
         lk' = [pc |-> IF Hit(c) THEN "returned" ELSE "select",
                tid |-> tid, cached |-> c, found |-> NoUser,
                result |-> IF Hit(c) THEN c ELSE NoUser,
                queries |-> 0, getFailed |-> fails, setFailed |-> FALSE,
                at |-> wall,
                stored |-> ScalarOneOrNone(RowsByTelegramId(tid)),
                calls |-> lk.calls + 1]
    /\ UNCHANGED <<base, replies, redisAvailable, redis, memory, wall, cachedAt, obj, shown, procs>>

\* (variant of LookupSelect: the answer is written back whether or not a
\* record was found)
LookupSelectCachesAbsence ==
    /\ lk.pc = "select"
    /\ LET found == ScalarOneOrNone(RowsByTelegramId(lk.tid)) IN
         lk' = [lk EXCEPT !.found = found, !.queries = @ + 1, !.pc = "set"]
    /\ UNCHANGED <<base, replies, redisAvailable, redis, memory, wall, cachedAt, obj, shown, procs>>

\* lines 136-140: the query of the store, and the return of None
LookupSelect ==
    /\ lk.pc = "select"
    /\ LET found == ScalarOneOrNone(RowsByTelegramId(lk.tid)) IN
         lk' = [lk EXCEPT !.found = found,
                          !.queries = @ + 1,
                          !.pc = IF found # NoUser THEN "set" ELSE "returned"]
    /\ UNCHANGED <<base, replies, redisAvailable, redis, memory, wall, cachedAt, obj, shown, procs>>

\* lines 142-146: the write-back of the record found, and its return
LookupCacheSet(fails) ==
    /\ lk.pc = "set"
    /\ fails => redisAvailable
    /\ redis' = RedisAfterSet(CacheKey(lk.tid), lk.found, Ttl, fails)
    /\ memory' = MemoryAfterSet(CacheKey(lk.tid), lk.found, fails)
    /\ cachedAt' = [cachedAt EXCEPT ![CacheKey(lk.tid)] = wall]
    /\ lk' = [lk EXCEPT !.pc = "returned", !.result = lk.found, !.setFailed = fails]
    /\ UNCHANGED <<base, replies, redisAvailable, wall, obj, shown, procs>>

\* time passes
Tick ==
    /\ wall < MaxTicks * TickSeconds
    /\ wall' = wall + TickSeconds
    /\ UNCHANGED <<base, replies, redisAvailable, redis, memory, cachedAt, lk, obj, shown, procs>>

CacheNext ==
    \/ \E tid \in CacheIds, fails \in BOOLEAN : LookupCacheGet(tid, fails)
    \/ LookupSelect
    \/ \E fails \in BOOLEAN : LookupCacheSet(fails)
    \/ Tick
    \/ \E tgu \in CacheProfiles : WriterUpsert(tgu)
    \/ FlushUpdate(Writer)
    \/ CreateNewUser(Writer)
    \/ Commit(Writer)

CacheSpec == CacheInit /\ [][CacheNext]_vars

-----------------------------------------------------------------------------
(* start_handler of app/handlers/start.py under DatabaseMiddleware *)

\* the reply to an event without a sender
UnknownReply == "Hello world, <b>Unknown</b>"

\* the greeting of a user
Greeting(u) == "Hello world test deploy, <b>" \o DisplayName(u) \o "</b>"

\* line 68: the handler of a /start event with a sender calls
\* get_or_create_user; each task handles one event
StartHandler(t, tgu) == pc[t] = "idle" /\ GetOrCreateSelect(t, tgu)

\* (variant of StartHandlerNoSender: the store is queried before the reply)
StartHandlerNoSenderLooksUp(t) ==
    /\ pc[t] = "idle"
    /\ events < MaxEvents
    /\ events' = events + 1
    /\ op' = [op EXCEPT ![t] = "no_sender"]
    /\ replies' = [replies EXCEPT ![t] = <<UnknownReply>>]
    /\ sql' = [sql EXCEPT ![t] = <<"select">>]
    /\ pc' = [pc EXCEPT ![t] = "return"]
    /\ UNCHANGED <<db, nextId, clock, tg, user, loaded, updated, pend, txnTime,
                   logged, result, raised>>
    /\ UNCHANGED <<redisAvailable, redis, memory, wall, cachedAt, lk, obj, shown, procs>>

\* lines 63-65: `if not message.from_user`: one reply, then return
StartHandlerNoSender(t) ==
    /\ pc[t] = "idle"
    /\ events < MaxEvents
    /\ events' = events + 1
    /\ op' = [op EXCEPT ![t] = "no_sender"]
    /\ replies' = [replies EXCEPT ![t] = <<UnknownReply>>]
    /\ pc' = [pc EXCEPT ![t] = "return"]
    /\ UNCHANGED <<db, nextId, clock, tg, user, loaded, updated, pend, txnTime,
                   sql, logged, result, raised>>
    /\ UNCHANGED <<redisAvailable, redis, memory, wall, cachedAt, lk, obj, shown, procs>>

\* lines 71-72: message.answer(greeting), after get_or_create_user returned
Answer(t) ==
    /\ pc[t] = "return"
    /\ op[t] = "upsert"
    /\ replies[t] = <<>>
    /\ replies' = [replies EXCEPT ![t] = <<Greeting(result[t])>>]
    /\ UNCHANGED <<base, redisAvailable, redis, memory, wall, cachedAt, lk, obj, shown, procs>>

\* the lookup's session.execute raises
LookupRaises(t, tgu) ==
    /\ pc[t] = "idle"
    /\ events < MaxEvents
    /\ events' = events + 1
    /\ clock' = clock + 1
    /\ txnTime' = [txnTime EXCEPT ![t] = clock + 1]
    /\ op' = [op EXCEPT ![t] = "upsert"]
    /\ tg' = [tg EXCEPT ![t] = tgu]
    /\ raised' = [raised EXCEPT ![t] = "DBAPIError"]
    /\ pc' = [pc EXCEPT ![t] = "raise"]
    /\ UNCHANGED <<db, nextId, user, loaded, updated, pend, sql, logged, result, aux>>

\* session.flush() of the update or of the create raises: nothing is written
FlushRaises(t) ==
    /\ pc[t] \in {"flush", "create"}
    /\ raised' = [raised EXCEPT ![t] = "DBAPIError"]
    /\ pc' = [pc EXCEPT ![t] = "raise"]
    /\ UNCHANGED <<db, nextId, clock, op, tg, user, loaded, updated, pend, txnTime,
                   sql, logged, result, events, aux>>

\* message.answer raises: no reply is sent
AnswerRaises(t) ==
    /\ pc[t] = "return"
    /\ op[t] = "upsert"
    /\ replies[t] = <<>>
    /\ raised' = [raised EXCEPT ![t] = "TelegramAPIError"]
    /\ pc' = [pc EXCEPT ![t] = "raise"]
    /\ UNCHANGED <<db, nextId, clock, op, tg, user, loaded, updated, pend, txnTime,
                   sql, logged, result, events, aux>>

\* the handler returned and session.commit() raises: nothing is committed
CommitRaises(t) ==
    /\ pc[t] = "return"
    /\ op[t] = "upsert"
    /\ replies[t] # <<>>
    /\ raised' = [raised EXCEPT ![t] = "DBAPIError"]
    /\ pc' = [pc EXCEPT ![t] = "raise"]
    /\ UNCHANGED <<db, nextId, clock, op, tg, user, loaded, updated, pend, txnTime,
                   sql, logged, result, events, aux>>

\* the handler returned (it has replied): session.commit()
MiddlewareCommit(t) == replies[t] # <<>> /\ Commit(t)

HandlerNext ==
    \E t \in Tasks :
        \/ \E tgu \in TelegramUsers : StartHandler(t, tgu)
        \/ StartHandlerNoSender(t)
        \/ FlushUpdate(t)
        \/ CreateNewUser(t)
        \/ Answer(t)
        \/ MiddlewareCommit(t)
        \/ \E tgu \in TelegramUsers : LookupRaises(t, tgu)
        \/ FlushRaises(t)
        \/ AnswerRaises(t)
        \/ CommitRaises(t)
        \/ Rollback(t)

HandlerSpec == UpsertInit /\ [][HandlerNext]_vars

-----------------------------------------------------------------------------
(* CacheService: initialize, then get, set and delete on one key *)

MaxCalls == 3

\* the key the calls are made on
TheKey == CacheKey(101)

\* the values that are set
CacheValues == {NewUser(u, 1, 1) : u \in CacheProfiles}

\* CacheService() as constructed: no client, flag False, nothing cached
NewService ==
    [pc |-> "new", lib |-> FALSE, enabled |-> FALSE, client |-> FALSE,
     pinged |-> FALSE, raised |-> FALSE, contacts |-> 0, calls |-> 0,
     call |-> NoneV, ret |-> NoUser, latest |-> NoUser]

ServiceInit ==
    /\ Init
    /\ db = {}
    /\ NoReplies /\ redisAvailable = FALSE /\ EmptyCache /\ NoObject
    /\ cs = NewService
    /\ wh = [pc |-> "idle"] /\ app = [pc |-> "idle"] /\ runner = [pc |-> "idle"]

\* (variant of Initialized: the flag is set once the client is created)
InitializedBeforePing(lib, enabled, created, ping) ==
    [client |-> lib /\ enabled /\ created,
     available |-> lib /\ enabled /\ created]

\* initialize(): what it leaves in _redis_client and _redis_available, given
\* whether the library was imported, Redis is enabled in the settings,
\* redis.from_url returned and the ping succeeded
Initialized(lib, enabled, created, ping) ==
    [client |-> lib /\ enabled /\ created,
     available |-> lib /\ enabled /\ created /\ ping]

\* await cache_service.initialize()
CacheInitialize(lib, enabled, created, ping) ==
    /\ cs.pc = "new"
    /\ ping => created
    /\ LET r == Initialized(lib, enabled, created, ping) IN
         /\ redisAvailable' = r.available
         /\ cs' = [cs EXCEPT !.pc = "ready", !.lib = lib, !.enabled = enabled,
                              !.client = r.client,
                              !.pinged = lib /\ enabled /\ created /\ ping]
    /\ UNCHANGED <<base, replies, redis, memory, wall, cachedAt, lk, obj, shown,
                   wh, app, runner>>

\* `if self._redis_available and self._redis_client`
UsesRedis == redisAvailable /\ cs.client

\* await cache_service.get(key)
ServiceGet(fails) ==
    /\ cs.pc = "ready"
    /\ cs.calls < MaxCalls
    /\ fails => UsesRedis
    /\ cs' = [cs EXCEPT !.calls = @ + 1,
                         !.contacts = IF UsesRedis THEN @ + 1 ELSE @,
                         !.call = "get",
                         !.ret = CacheGet(TheKey, fails)]
    /\ UNCHANGED <<base, replies, redisAvailable, redis, memory, wall, cachedAt,
                   lk, obj, shown, wh, app, runner>>

\* await cache_service.set(key, value, ttl)
ServiceSet(value, fails) ==
    /\ cs.pc = "ready"
    /\ cs.calls < MaxCalls
    /\ fails => UsesRedis
    /\ redis' = RedisAfterSet(TheKey, value, Ttl, fails)
    /\ memory' = MemoryAfterSet(TheKey, value, fails)
    /\ cs' = [cs EXCEPT !.calls = @ + 1,
                         !.contacts = IF UsesRedis THEN @ + 1 ELSE @,
                         !.call = "set",
                         !.ret = NoUser,
                         !.latest = value]
    /\ UNCHANGED <<base, replies, redisAvailable, wall, cachedAt, lk, obj, shown,
                   wh, app, runner>>

\* await cache_service.delete(key): the key is deleted in Redis, or, when
\* Redis is not used or the call raises, in the memory cache
ServiceDelete(fails) ==
    /\ cs.pc = "ready"
    /\ cs.calls < MaxCalls
    /\ fails => UsesRedis
    /\ redis' = IF UsesRedis /\ ~fails THEN [redis EXCEPT ![TheKey] = NoEntry] ELSE redis
    /\ memory' = IF UsesRedis /\ ~fails THEN memory ELSE [memory EXCEPT ![TheKey] = NoUser]
    /\ cs' = [cs EXCEPT !.calls = @ + 1,
                         !.contacts = IF UsesRedis THEN @ + 1 ELSE @,
                         !.call = "delete",
                         !.ret = NoUser,
                         !.latest = NoUser]
    /\ UNCHANGED <<base, replies, redisAvailable, wall, cachedAt, lk, obj, shown,
                   wh, app, runner>>

ServiceNext ==
    \/ \E lib \in BOOLEAN, enabled \in BOOLEAN, created \in BOOLEAN, ping \in BOOLEAN :
           CacheInitialize(lib, enabled, created, ping)
    \/ \E fails \in BOOLEAN : ServiceGet(fails)
    \/ \E v \in CacheValues, fails \in BOOLEAN : ServiceSet(v, fails)
    \/ \E fails \in BOOLEAN : ServiceDelete(fails)

ServiceSpec == ServiceInit /\ [][ServiceNext]_vars

-----------------------------------------------------------------------------
(* webhook_handler of app/webhook.py in front of the dispatcher *)

MaxRequests == 2

\* settings.webhook_secret_token: not set, empty, or a token
SecretTokens == {NoneV, "", "s"}

\* the X-Telegram-Bot-Api-Secret-Token header of a request: missing, the
\* token, or something else
SecretHeaders == {NoneV, "s", "x"}

\* request bodies: one that is no update, and /start updates of user 101
Bodies == {[kind |-> "junk"]} \cup {[kind |-> "update", from_user |-> u] : u \in CacheProfiles}

\* (variant of SecretOk: a request without the header is let through)
SecretOkWithoutHeader(token, header) ==
    ~Truthy(token) \/ header = token \/ header = NoneV

\* lines 180-184: the check passes when no token is configured or the header
\* equals it
SecretOk(token, header) == ~Truthy(token) \/ header = token

\* request.json() and Update.model_validate succeed
ParsesAsUpdate(body) == body.kind = "update"

\* dp.feed_update has been called for the request in hand
Fed == events > wh.at

WebhookInit ==
    /\ Init
    /\ db \in CacheTables
    /\ NoReplies /\ redisAvailable = FALSE /\ EmptyCache /\ NoObject
    /\ cs = [pc |-> "idle"] /\ app = [pc |-> "idle"] /\ runner = [pc |-> "idle"]
    /\ \E token \in SecretTokens :
           wh = [pc |-> "idle", token |-> token, header |-> NoneV,
                 body |-> [kind |-> "junk"], status |-> 0, read |-> FALSE,
                 at |-> 0, requests |-> 0]

\* lines 178-192: a request arrives; it is answered 401 or 400, or its
\* update goes on to the dispatcher
WebhookReceive(header, body) ==
    /\ wh.pc \in {"idle", "responded"}
    /\ wh.requests < MaxRequests
    /\ wh' = [wh EXCEPT
                 !.pc = IF SecretOk(wh.token, header) /\ ParsesAsUpdate(body)
                           THEN "feeding" ELSE "responded",
                 !.header = header,
                 !.body = body,
                 !.status = IF ~SecretOk(wh.token, header) THEN 401
                            ELSE IF ~ParsesAsUpdate(body) THEN 400 ELSE 0,
                 !.read = SecretOk(wh.token, header),
                 !.at = events,
                 !.requests = @ + 1]
    /\ UNCHANGED <<base, replies, redisAvailable, redis, memory, wall, cachedAt,
                   lk, obj, shown, cs, app, runner>>

\* line 212: dp.feed_update(bot, update) runs the handler of the update
WebhookFeed ==
    /\ wh.pc = "feeding"
    /\ ~Fed
    /\ GetOrCreateSelect(Writer, wh.body.from_user)

\* (variant of WebhookRespond: ok whatever the dispatch did)
WebhookRespondAlwaysOk ==
    /\ wh.pc = "feeding"
    /\ Fed
    /\ pc[Writer] \in {"done", "failed"}
    /\ wh' = [wh EXCEPT !.pc = "responded", !.status = 200]
    /\ UNCHANGED <<base, replies, redisAvailable, redis, memory, wall, cachedAt,
                   lk, obj, shown, cs, app, runner>>

\* lines 214-221: feed_update returned ({"status": "ok"}) or raised (500)
WebhookRespond ==
    /\ wh.pc = "feeding"
    /\ Fed
    /\ pc[Writer] \in {"done", "failed"}
    /\ wh' = [wh EXCEPT !.pc = "responded",
                         !.status = IF pc[Writer] = "done" THEN 200 ELSE 500]
    /\ UNCHANGED <<base, replies, redisAvailable, redis, memory, wall, cachedAt,
                   lk, obj, shown, cs, app, runner>>

WebhookNext ==
    \/ \E header \in SecretHeaders, body \in Bodies : WebhookReceive(header, body)
    \/ WebhookFeed
    \/ FlushUpdate(Writer)
    \/ CreateNewUser(Writer)
    \/ FlushRaises(Writer)
    \/ Commit(Writer)
    \/ Rollback(Writer)
    \/ WebhookRespond

WebhookSpec == WebhookInit /\ [][WebhookNext]_vars

-----------------------------------------------------------------------------
(* BotRunner of scripts/dev_run.py and the bot processes it spawns *)

MaxSpawns == 3

\* the child processes the runner can spawn
Pids == 1 .. MaxSpawns

\* BotRunner(): no process, nothing spawned
NewRunner ==
    [pc |-> "ready", process |-> 0, restart_count |-> 0,
     child |-> [p \in Pids |-> "none"], call |-> NoneV, last |-> NoneV]

\* the children that are running: spawned and not yet exited
Alive == {p \in Pids : runner.child[p] \in {"running", "terminating", "killed"}}

RunnerInit ==
    /\ Init
    /\ db = {}
    /\ NoReplies /\ redisAvailable = FALSE /\ EmptyCache /\ NoObject
    /\ cs = [pc |-> "idle"] /\ wh = [pc |-> "idle"] /\ app = [pc |-> "idle"]
    /\ runner = NewRunner

\* start_bot() or restart_bot() is called: `if self.process: await self.stop_bot()`
CallStartBot(name) ==
    /\ runner.pc = "ready"
    /\ runner.restart_count < MaxSpawns
    /\ runner' = [runner EXCEPT !.call = name,
                                 !.pc = IF runner.process # 0 THEN "terminate" ELSE "spawn"]
    /\ UNCHANGED <<base, replies, redisAvailable, redis, memory, wall, cachedAt,
                   lk, obj, shown, cs, wh, app>>

\* stop_bot() is called: `if self.process:`
CallStopBot ==
    /\ runner.pc = "ready"
    /\ runner.call # NoneV
    /\ runner' = [runner EXCEPT !.call = "stop_bot",
                                 !.pc = IF runner.process # 0 THEN "terminate" ELSE "ready",
                                 !.last = IF runner.process # 0 THEN @ ELSE "stop_bot"]
    /\ UNCHANGED <<base, replies, redisAvailable, redis, memory, wall, cachedAt,
                   lk, obj, shown, cs, wh, app>>

\* self.process.terminate()
Terminate ==
    /\ runner.pc = "terminate"
    /\ runner' = [runner EXCEPT !.child[runner.process] = "terminating",
                                 !.pc = "wait"]
    /\ UNCHANGED <<base, replies, redisAvailable, redis, memory, wall, cachedAt,
                   lk, obj, shown, cs, wh, app>>

\* where stop_bot goes when it is done: back into start_bot, or to its caller
AfterStop == IF runner.call = "stop_bot" THEN "ready" ELSE "spawn"

\* wait_for(self.process.wait(), timeout=5.0) returns: the child has exited
WaitReturns ==
    /\ runner.pc = "wait"
    /\ runner' = [runner EXCEPT !.child[runner.process] = "exited",
                                 !.process = 0,
                                 !.pc = AfterStop,
                                 !.last = IF runner.call = "stop_bot" THEN "stop_bot" ELSE @]
    /\ UNCHANGED <<base, replies, redisAvailable, redis, memory, wall, cachedAt,
                   lk, obj, shown, cs, wh, app>>

\* wait_for times out: self.process.kill() sends SIGKILL, and stop_bot goes on
\* without waiting for the child to exit
WaitTimesOut ==
    /\ runner.pc = "wait"
    /\ runner' = [runner EXCEPT !.child[runner.process] = "killed",
                                 !.process = 0,
                                 !.pc = AfterStop,
                                 !.last = IF runner.call = "stop_bot" THEN "stop_bot" ELSE @]
    /\ UNCHANGED <<base, replies, redisAvailable, redis, memory, wall, cachedAt,
                   lk, obj, shown, cs, wh, app>>

\* a killed child exits
KilledExits(p) ==
    /\ runner.child[p] = "killed"
    /\ runner' = [runner EXCEPT !.child[p] = "exited"]
    /\ UNCHANGED <<base, replies, redisAvailable, redis, memory, wall, cachedAt,
                   lk, obj, shown, cs, wh, app>>

\* asyncio.create_subprocess_exec(...), restart_count += 1, and the return
Spawn ==
    /\ runner.pc = "spawn"
    /\ LET p == runner.restart_count + 1 IN
         runner' = [runner EXCEPT !.child[p] = "running",
                                  !.process = p,
                                  !.restart_count = p,
                                  !.pc = "ready",
                                  !.last = runner.call]
    /\ UNCHANGED <<base, replies, redisAvailable, redis, memory, wall, cachedAt,
                   lk, obj, shown, cs, wh, app>>

RunnerNext ==
    \/ \E name \in {"start_bot", "restart_bot"} : CallStartBot(name)
    \/ CallStopBot
    \/ Terminate
    \/ WaitReturns
    \/ WaitTimesOut
    \/ \E p \in Pids : KilledExits(p)
    \/ Spawn

RunnerSpec == RunnerInit /\ [][RunnerNext]_vars

-----------------------------------------------------------------------------
(* main() and lifespan() of app/main.py: startup, serving, shutdown *)

MaxSignals == 2

Modes == {"webhook", "polling"}

\* main() is entered: nothing created yet; the mode is what settings select
NewApp(mode) ==
    [pc |-> "create_tables", mode |-> mode, handlers |-> FALSE, event |-> FALSE,
     signals |-> 0, during |-> FALSE, task |-> "none", should_exit |-> FALSE,
     bot |-> FALSE, exc |-> FALSE, trace |-> <<>>]

MainInit ==
    /\ Init
    /\ db = {}
    /\ NoReplies /\ redisAvailable = FALSE /\ EmptyCache /\ NoObject
    /\ cs = [pc |-> "idle"] /\ wh = [pc |-> "idle"] /\ runner = [pc |-> "idle"]
    /\ \E mode \in Modes : app = NewApp(mode)

\* main is blocked in `await shutdown_event.wait()` with its task running
Serving == app.pc = "wait" /\ app.task = "running"

\* main has left: by returning, or with an exception
Exited == app.pc \in {"returned", "raised"}

\* lifespan: create_tables(); a failure is re-raised through the finally block
CreateTables(ok) ==
    /\ app.pc = "create_tables"
    /\ app' = [app EXCEPT !.pc = IF ok THEN "create_bot" ELSE "dispose",
                           !.exc = ~ok]
    /\ UNCHANGED <<base, replies, redisAvailable, redis, memory, wall, cachedAt,
                   lk, obj, shown, cs, wh, runner>>

\* create_bot(), create_dispatcher(): ValueError without a bot token, raised
\* outside main's try block
CreateBot(ok) ==
    /\ app.pc = "create_bot"
    /\ app' = [app EXCEPT !.pc = IF ok THEN "register" ELSE "dispose",
                           !.bot = ok,
                           !.exc = ~ok]
    /\ UNCHANGED <<base, replies, redisAvailable, redis, memory, wall, cachedAt,
                   lk, obj, shown, cs, wh, runner>>

\* shutdown_event = asyncio.Event(); signal.signal(SIGTERM/SIGINT, signal_handler)
RegisterHandlers ==
    /\ app.pc = "register"
    /\ app' = [app EXCEPT !.pc = "setup", !.handlers = TRUE]
    /\ UNCHANGED <<base, replies, redisAvailable, redis, memory, wall, cachedAt,
                   lk, obj, shown, cs, wh, runner>>

\* a SIGTERM or SIGINT arrives: signal_handler sets shutdown_event
Signal ==
    /\ app.handlers
    /\ ~Exited
    /\ app.signals < MaxSignals
    /\ app' = [app EXCEPT !.signals = @ + 1,
                           !.event = TRUE,
                           !.during = @ \/ Serving]
    /\ UNCHANGED <<base, replies, redisAvailable, redis, memory, wall, cachedAt,
                   lk, obj, shown, cs, wh, runner>>

\* bot.set_webhook(...) in webhook mode, bot.delete_webhook(...) in polling
\* mode; an exception goes to main's except and finally
SetupWebhook(ok) ==
    /\ app.pc = "setup"
    /\ app' = [app EXCEPT !.pc = IF ok THEN "create_task" ELSE "close",
                           !.exc = ~ok]
    /\ UNCHANGED <<base, replies, redisAvailable, redis, memory, wall, cachedAt,
                   lk, obj, shown, cs, wh, runner>>

\* asyncio.create_task(server.serve()) / create_task(dp.start_polling(...))
CreateTask ==
    /\ app.pc = "create_task"
    /\ app' = [app EXCEPT !.pc = "wait", !.task = "running"]
    /\ UNCHANGED <<base, replies, redisAvailable, redis, memory, wall, cachedAt,
                   lk, obj, shown, cs, wh, runner>>

\* the serving task fails with an exception, which stays in the task until
\* main awaits it
TaskFails ==
    /\ app.task \in {"running", "cancelling"}
    /\ app' = [app EXCEPT !.task = "failed"]
    /\ UNCHANGED <<base, replies, redisAvailable, redis, memory, wall, cachedAt,
                   lk, obj, shown, cs, wh, runner>>

\* shutdown_event.wait() returns: server.should_exit = True, or
\* polling_task.cancel() (which does nothing to a task that is done)
StopServing ==
    /\ app.pc = "wait"
    /\ app.event
    /\ app' = [app EXCEPT
                  !.pc = "await",
                  !.should_exit = (app.mode = "webhook"),
                  !.task = IF app.mode = "polling" /\ @ = "running"
                             THEN "cancelling" ELSE @,
                  !.trace = Append(@, IF app.mode = "webhook"
                                        THEN "stop_server" ELSE "cancel_polling")]
    /\ UNCHANGED <<base, replies, redisAvailable, redis, memory, wall, cachedAt,
                   lk, obj, shown, cs, wh, runner>>

\* server.serve() sees should_exit and returns
ServerExits ==
    /\ app.task = "running"
    /\ app.should_exit
    /\ app' = [app EXCEPT !.task = "finished"]
    /\ UNCHANGED <<base, replies, redisAvailable, redis, memory, wall, cachedAt,
                   lk, obj, shown, cs, wh, runner>>

\* the cancellation reaches the polling task
PollingCancelled ==
    /\ app.task = "cancelling"
    /\ app' = [app EXCEPT !.task = "cancelled"]
    /\ UNCHANGED <<base, replies, redisAvailable, redis, memory, wall, cachedAt,
                   lk, obj, shown, cs, wh, runner>>

\* `await server_task` / `await polling_task`: CancelledError is swallowed,
\* the task's own exception is logged and re-raised
AwaitTask ==
    /\ app.pc = "await"
    /\ app.task \in {"finished", "cancelled", "failed"}
    /\ app' = [app EXCEPT !.pc = "close", !.exc = (app.task = "failed")]
    /\ UNCHANGED <<base, replies, redisAvailable, redis, memory, wall, cachedAt,
                   lk, obj, shown, cs, wh, runner>>

\* a finally block that closes the session only when nothing was raised
SessionCloseOnSuccess ==
    /\ app.pc = "close"
    /\ app' = [app EXCEPT !.pc = "dispose",
                           !.trace = IF app.exc THEN @ ELSE Append(@, "session_close")]
    /\ UNCHANGED <<base, replies, redisAvailable, redis, memory, wall, cachedAt,
                   lk, obj, shown, cs, wh, runner>>

\* main's finally: await bot.session.close()
SessionClose ==
    /\ app.pc = "close"
    /\ app' = [app EXCEPT !.pc = "dispose",
                           !.trace = Append(@, "session_close")]
    /\ UNCHANGED <<base, replies, redisAvailable, redis, memory, wall, cachedAt,
                   lk, obj, shown, cs, wh, runner>>

\* lifespan's finally: await engine.dispose(); then main returns or raises
EngineDispose ==
    /\ app.pc = "dispose"
    /\ app' = [app EXCEPT !.pc = IF app.exc THEN "raised" ELSE "returned",
                           !.trace = Append(@, "engine_dispose")]
    /\ UNCHANGED <<base, replies, redisAvailable, redis, memory, wall, cachedAt,
                   lk, obj, shown, cs, wh, runner>>

\* the steps of main's own coroutine once the process is up
MainStep ==
    \/ RegisterHandlers
    \/ CreateTask
    \/ StopServing
    \/ AwaitTask
    \/ SessionClose
    \/ EngineDispose

MainNext ==
    \/ \E ok \in BOOLEAN : CreateTables(ok)
    \/ \E ok \in BOOLEAN : CreateBot(ok)
    \/ \E ok \in BOOLEAN : SetupWebhook(ok)
    \/ Signal
    \/ TaskFails
    \/ ServerExits
    \/ PollingCancelled
    \/ MainStep

\* the event loop runs every coroutine that is ready; the server and the
\* polling task react to should_exit and to cancellation
MainSpec ==
    /\ MainInit
    /\ [][MainNext]_vars
    /\ WF_vars(MainStep)
    /\ WF_vars(ServerExits)
    /\ WF_vars(PollingCancelled)

-----------------------------------------------------------------------------
(* Properties *)

\* `if user:` of get_or_create_user: the lookup returned a row
Found(t) == loaded[t] # NoUser

\* the tracked fields in which the row the lookup returned and the observed
\* profile differ
DiffFields(t) == {f \in TrackedFields : loaded[t][f] # tg[t][f]}

\* the INSERT and UPDATE statements among those the session executed
Writes(t) == {i \in DOMAIN sql[t] : sql[t][i] # "select"}

\* C1: two concurrent get_or_create_user calls for the same never-seen
\* telegram_id end with exactly one row for it, and both calls return a user
\* with the same id.
C1_ConcurrentCreatesAgree ==
    \A t1 \in Tasks : \A t2 \in Tasks \ {t1} :
        (/\ op[t1] = "upsert" /\ op[t2] = "upsert"
         /\ tg[t1].id = tg[t2].id
         /\ ~Found(t1) /\ ~Found(t2)
         /\ pc[t1] \in {"done", "failed"} /\ pc[t2] \in {"done", "failed"})
        => /\ Cardinality(RowsByTelegramId(tg[t1].id)) = 1
           /\ result[t1] # NoUser
           /\ result[t2] # NoUser
           /\ result[t1].id = result[t2].id

\* C2: no two rows of the store share a telegram_id.
C2_UniqueTelegramId ==
    \A r1 \in db : \A r2 \in db : r1.telegram_id = r2.telegram_id => r1 = r2

\* a second create of a telegram_id was attempted and rejected, and the store
\* holds the one row
C2_Witness ==
    \E t \in Tasks :
        /\ raised[t] = "IntegrityError"
        /\ Cardinality(RowsByTelegramId(tg[t].id)) = 1

\* C3: a create rejected by the uniqueness constraint is not surfaced to the
\* caller: the call re-fetches the row and completes through the update path.
C3_UniqueConflictRecovered ==
    \A t \in Tasks :
        op[t] = "upsert" => raised[t] # "IntegrityError" /\ pc[t] # "failed"

\* C4: a call whose telegram_id has no row creates exactly one row, with the
\* observed telegram_id, username, first_name, last_name and language_code and
\* is_active true, and reports a creation.
C4_CreateStoresObserved ==
    \A t \in Tasks :
        (op[t] = "upsert" /\ ~Found(t) /\ pc[t] \in {"return", "done"})
        => /\ logged[t] = "Created new user"
           /\ sql[t] = <<"select", "insert">>
           /\ result[t].telegram_id = tg[t].id
           /\ \A f \in TrackedFields : result[t][f] = tg[t][f]
           /\ result[t].is_active
           /\ pc[t] = "return" =>
                 /\ pend[t] = [kind |-> "insert", row |-> result[t]]
                 /\ RowsByTelegramId(tg[t].id) = {}
           /\ pc[t] = "done" =>
                 /\ Cardinality(RowsByTelegramId(tg[t].id)) = 1
                 /\ \A r \in RowsByTelegramId(tg[t].id) :
                        /\ r.id = result[t].id
                        /\ r.updated_at = result[t].updated_at => r = result[t]

\* a created row with a username is in the store as observed
C4_Witness ==
    \E t \in Tasks :
        /\ op[t] = "upsert" /\ ~Found(t) /\ pc[t] = "done"
        /\ tg[t].username = "a"
        /\ result[t] \in db
        /\ result[t].username = "a"

\* C5: a call whose observed fields equal the stored ones executes no INSERT
\* or UPDATE, reports neither a creation nor an update, returns the row as it
\* was loaded (updated_at included) and leaves the store as it was.
C5_IdempotentUpsert ==
    [][\A t \in Tasks :
          (/\ op[t] = "upsert" /\ Found(t) /\ DiffFields(t) = {}
           /\ pc[t] = "return" /\ pc'[t] = "done")
          => /\ db' = db
             /\ sql'[t] = <<"select">>
             /\ logged[t] = NoneV
             /\ result[t] = loaded[t]]_vars

\* both tasks have repeated the upsert of the stored profile, and the row is
\* still the one they loaded
C5_Witness ==
    \A t \in Tasks :
        /\ op[t] = "upsert" /\ Found(t) /\ DiffFields(t) = {} /\ pc[t] = "done"
        /\ Present(tg[t]) # {}
        /\ loaded[t] \in db

\* C6: when exactly one tracked field differs, the call reports an update (not
\* a creation), the stored row gets the observed value in that field, every
\* other column but updated_at keeps its value, and updated_at is later than
\* that of the row the call loaded.
C6_SingleFieldUpdate ==
    [][\A t \in Tasks :
          (/\ op[t] = "upsert" /\ Found(t) /\ Cardinality(DiffFields(t)) = 1
           /\ pc[t] = "return" /\ pc'[t] = "done")
          => LET f == CHOOSE g \in DiffFields(t) : TRUE
                 old == CHOOSE r \in db : r.id = loaded[t].id
                 new == CHOOSE r \in db' : r.id = loaded[t].id IN
               /\ logged[t] = "Updated user info"
               /\ new[f] = tg[t][f]
               /\ \A c \in DOMAIN old \ {f, "updated_at"} : new[c] = old[c]
               /\ new.updated_at > loaded[t].updated_at
               /\ db' \ {new} = db \ {old}]_vars

\* an update of first_name alone has been committed
C6_Witness ==
    \E t \in Tasks :
        /\ op[t] = "upsert" /\ Found(t) /\ pc[t] = "done"
        /\ DiffFields(t) = {"first_name"}
        /\ \E r \in db : /\ r.id = loaded[t].id
                         /\ r.first_name = tg[t].first_name
                         /\ r.updated_at = txnTime[t]
                         /\ r.updated_at > loaded[t].updated_at

\* C7: the row of a telegram_id keeps the id it had when a call loaded it, and
\* the call returns the user under that id.
C7_InternalIdStable ==
    \A t \in Tasks :
        Found(t) =>
            /\ \A r \in RowsByTelegramId(loaded[t].telegram_id) : r.id = loaded[t].id
            /\ (op[t] = "upsert" /\ pc[t] \in {"return", "done"}) =>
                   result[t].id = loaded[t].id

\* an upsert has rewritten an existing row, which is stored under its old id
C7_Witness ==
    \E t \in Tasks :
        /\ op[t] = "upsert" /\ Found(t) /\ updated[t] /\ pc[t] = "done"
        /\ \E r \in db : /\ r.id = loaded[t].id
                         /\ r.updated_at = txnTime[t]
                         /\ r.telegram_id = tg[t].id

\* C8: a call executes at most one INSERT or UPDATE: an INSERT only when the
\* lookup found no row, an UPDATE only when it found one that differs, and a
\* completed call exactly the INSERT, exactly the UPDATE, or nothing.
C8_AtMostOneWrite ==
    \A t \in Tasks :
        op[t] = "upsert" =>
            /\ Cardinality(Writes(t)) <= 1
            /\ (\E i \in Writes(t) : sql[t][i] = "insert") => ~Found(t)
            /\ (\E i \in Writes(t) : sql[t][i] = "update") =>
                   Found(t) /\ DiffFields(t) # {}
            /\ pc[t] = "done" =>
                   sql[t] = IF ~Found(t) THEN <<"select", "insert">>
                            ELSE IF DiffFields(t) # {} THEN <<"select", "update">>
                            ELSE <<"select">>

\* one call has created, another has updated, each with its one statement
C8_Witness ==
    \E t1 \in Tasks : \E t2 \in Tasks :
        /\ pc[t1] = "done" /\ sql[t1] = <<"select", "insert">>
        /\ pc[t2] = "done" /\ sql[t2] = <<"select", "update">>
        /\ op[t1] = "upsert" /\ op[t2] = "upsert"

\* C9: the commit of an upsert leaves is_active, telegram_id, created_at and
\* id of every stored row as they were; its UPDATE sets tracked fields and
\* updated_at only.
C9_UpsertKeepsIsActive ==
    [][\A t \in Tasks :
          (op[t] = "upsert" /\ pc[t] = "return" /\ pc'[t] = "done")
          => /\ pend[t].kind = "update" =>
                    DOMAIN pend[t].vals \subseteq TrackedFields \cup {"updated_at"}
             /\ \A r \in db : \E n \in db' :
                    /\ n.id = r.id
                    /\ n.is_active = r.is_active
                    /\ n.telegram_id = r.telegram_id
                    /\ n.created_at = r.created_at]_vars

\* an upsert has rewritten the row of a deactivated user, who is still
\* deactivated
C9_Witness ==
    \E t \in Tasks :
        /\ op[t] = "upsert" /\ Found(t) /\ updated[t] /\ pc[t] = "done"
        /\ ~loaded[t].is_active
        /\ \E r \in db : /\ r.id = loaded[t].id
                         /\ r.updated_at = txnTime[t]
                         /\ ~r.is_active

\* C10: _update_user_if_changed reports a change exactly when some tracked
\* field of the loaded row is not equal to the observed one, None and ""
\* being different; the UPDATE then sets exactly the differing fields, and a
\* call without a difference writes nothing.
C10_ChangeDetection ==
    \A t \in Tasks :
        (op[t] = "upsert" /\ Found(t)) =>
            /\ updated[t] = (DiffFields(t) # {})
            /\ pc[t] \in {"flush", "return", "done"} =>
                   \A f \in TrackedFields : user[t][f] = tg[t][f]
            /\ (pc[t] = "return" /\ DiffFields(t) # {}) =>
                   /\ pend[t].kind = "update"
                   /\ DOMAIN pend[t].vals = DiffFields(t) \cup {"updated_at"}
            /\ (pc[t] = "return" /\ DiffFields(t) = {}) => pend[t] = NoWrite

\* a username that went from None to "" has been written
C10_Witness ==
    \E t \in Tasks :
        /\ op[t] = "upsert" /\ Found(t) /\ pc[t] = "done"
        /\ loaded[t].username = NoneV /\ tg[t].username = ""
        /\ sql[t] = <<"select", "update">>
        /\ \E r \in db : r.id = loaded[t].id /\ r.username = ""

\* a name is present: it is neither None nor the empty string
NamePresent(v) == v \notin {NoneV, ""}

\* C11: display_name is the username when one is present; otherwise first_name
\* and last_name joined by one space, a part that is None or "" left out, when
\* a part is present; otherwise "User" followed by the telegram_id.  It is
\* computed from the fields the object has when it is read, and the object has
\* no display_name column.
C11_DisplayName ==
    shown # NoneV =>
        /\ shown =
              CASE NamePresent(obj.username) -> obj.username
                [] ~NamePresent(obj.username) /\ NamePresent(obj.first_name)
                     /\ NamePresent(obj.last_name) ->
                       obj.first_name \o " " \o obj.last_name
                [] ~NamePresent(obj.username) /\ NamePresent(obj.first_name)
                     /\ ~NamePresent(obj.last_name) -> obj.first_name
                [] ~NamePresent(obj.username) /\ ~NamePresent(obj.first_name)
                     /\ NamePresent(obj.last_name) -> obj.last_name
                [] OTHER -> "User" \o ToString(obj.telegram_id)
        /\ "display_name" \notin DOMAIN obj

\* the display name of a user with an empty username, no first name and the
\* last name "b" has been read
C11_Witness ==
    /\ obj.id # 0
    /\ obj.username = "" /\ obj.first_name = NoneV /\ obj.last_name = "b"
    /\ shown = "b"

\* the entry the cache holds for a key: in Redis when Redis is in use, in the
\* memory cache when the service runs without Redis
Held(key) == IF redisAvailable THEN RedisGet(key) ELSE memory[key]

\* C12: a cached lookup that begins after an upsert has committed its write of
\* a telegram_id returns nothing older than that write: the record it returns
\* is at least as recent as the row the store held when the lookup began.
C12_NoStaleAfterWrite ==
    (lk.pc = "returned" /\ lk.result # NoUser /\ lk.stored # NoUser)
    => lk.result.updated_at >= lk.stored.updated_at

\* C13: a record that a lookup wrote back into the cache is served for less
\* than 300 seconds after the write-back, on Redis and on the memory cache.
C13_ServedWithinTtl ==
    (lk.pc = "returned" /\ Hit(lk.cached))
    => lk.at < cachedAt[CacheKey(lk.tid)] + Ttl

\* C14: a lookup that begins while the cache holds an entry for its key, and
\* whose cache read does not fail, returns that entry at once and queries the
\* store not at all.
C14_HitSkipsStore ==
    [][(/\ lk'.calls = lk.calls + 1
        /\ ~lk'.getFailed
        /\ Held(CacheKey(lk'.tid)) # NoUser)
       => /\ lk'.pc = "returned"
          /\ lk'.result = Held(CacheKey(lk'.tid))
          /\ lk'.queries = 0
          /\ sql' = sql]_vars

\* the second lookup was served from Redis, without a query
C14_Witness ==
    /\ redisAvailable
    /\ lk.pc = "returned" /\ lk.calls = 2
    /\ ~lk.getFailed
    /\ lk.queries = 0
    /\ lk.result # NoUser
    /\ lk.result = redis[CacheKey(lk.tid)].value

\* C15: a lookup that misses the cache queries the store once and returns the
\* store's answer; a record found is then in the cache under its key with an
\* expiry of 300 seconds, unless the write-back failed, which changes nothing
\* in what is returned.
C15_MissReadsStoreAndCaches ==
    (lk.pc = "returned" /\ ~Hit(lk.cached))
    => /\ lk.queries = 1
       /\ lk.result = lk.found
       /\ (lk.found # NoUser /\ ~lk.setFailed) =>
              redis[CacheKey(lk.tid)] =
                  [value |-> lk.found,
                   expires |-> cachedAt[CacheKey(lk.tid)] + Ttl]

\* C16: a lookup whose Redis read fails queries the store and returns the
\* store's answer.
C16_CacheFailureFallsBackToStore ==
    (lk.pc = "returned" /\ lk.getFailed)
    => /\ lk.queries = 1
       /\ lk.result = lk.found

\* the rows the event of a task has written into the store: they carry the
\* time of its transaction
WrittenBy(t) == {r \in db : r.updated_at = txnTime[t]}

C18_ReplyOnlyWhenCommitted ==
    \A t \in Tasks :
        (op[t] = "upsert" /\ replies[t] # <<>>) => pc[t] \notin {"raise", "failed"}

\* C19: a /start event without a sender gets exactly the one reply naming
\* "Unknown"; its session executes no statement, holds no write and no loaded
\* object, so that its commit has nothing to send to the store.
C19_NoSenderNoStore ==
    \A t \in Tasks :
        op[t] = "no_sender" =>
            /\ replies[t] = <<"Hello world, <b>Unknown</b>">>
            /\ sql[t] = <<>>
            /\ pend[t] = NoWrite
            /\ loaded[t] = NoUser
            /\ FlushedAtCommit(t) = NoWrite
            /\ WrittenBy(t) = {}
            /\ raised[t] = NoneV
            /\ pc[t] \in {"return", "done"}

\* an event without a sender has been handled to the end while the store
\* holds a user
C19_Witness ==
    \E t \in Tasks :
        /\ op[t] = "no_sender" /\ pc[t] = "done"
        /\ Len(replies[t]) = 1
        /\ db # {}

C21_NeverDeleted ==
    [][\A r \in db : \E n \in db' : n.telegram_id = r.telegram_id /\ n.id = r.id]_vars

\* a user has been deactivated and the row is still in the store
C21_Witness ==
    \E t \in Tasks :
        /\ op[t] = "deactivate" /\ pc[t] = "done" /\ Found(t)
        /\ \E r \in db : r.id = loaded[t].id /\ ~r.is_active /\ r.updated_at = txnTime[t]

\* C26: when two upserts of one existing telegram_id with different observed
\* profiles have both been committed, the stored username, first_name,
\* last_name and language_code are those of one of the two profiles.
C26_NoMixedProfile ==
    \A t1 \in Tasks : \A t2 \in Tasks \ {t1} :
        (/\ op[t1] = "upsert" /\ op[t2] = "upsert"
         /\ pc[t1] = "done" /\ pc[t2] = "done"
         /\ Found(t1) /\ Found(t2)
         /\ tg[t1].id = tg[t2].id
         /\ tg[t1] # tg[t2])
        => \A r \in RowsByTelegramId(tg[t1].id) :
              \/ \A f \in TrackedFields : r[f] = tg[t1][f]
              \/ \A f \in TrackedFields : r[f] = tg[t2][f]

\* C27: a lookup that finds no record leaves the cache without an entry for
\* its key, and a lookup that begins when the store holds a record for its
\* telegram_id returns a record.
C27_AbsenceNotCached ==
    /\ (lk.pc = "returned" /\ lk.queries = 1 /\ lk.found = NoUser)
       => /\ lk.result = NoUser
          /\ redis[CacheKey(lk.tid)] = NoEntry
          /\ memory[CacheKey(lk.tid)] = NoUser
    /\ (lk.pc = "returned" /\ lk.stored # NoUser) => lk.result # NoUser

\* on the memory cache, with no time passed: the second lookup had to query
\* the store, so the first found nothing, and it returns the user the writer
\* has created in between
C27_Witness ==
    /\ ~redisAvailable /\ wall = 0
    /\ lk.pc = "returned" /\ lk.calls = 2 /\ lk.queries = 1
    /\ pc[Writer] = "done" /\ sql[Writer] = <<"select", "insert">>
    /\ lk.result \in db
    /\ lk.result.created_at = txnTime[Writer]

\* C29: the display name read from a User object is never the empty string
\* and never None, whichever of username, first_name and last_name are None
\* or "", and so is the name inside a greeting.
C29_DisplayNameNonEmpty ==
    /\ shown # NoneV => shown # "" /\ Len(shown) > 0
    /\ obj # NoUser => /\ DisplayName(obj) \notin {"", NoneV}
                       /\ Greeting(obj) # "Hello world test deploy, <b></b>"

\* the display name of a user whose three names are empty or None has been
\* read: it is "User" and the telegram id
C29_Witness ==
    /\ obj # NoUser
    /\ obj.username = "" /\ obj.first_name = NoneV /\ obj.last_name = ""
    /\ obj.telegram_id = 102
    /\ shown = "User102"

\* C22: initialize returns without raising in every case; afterwards the
\* Redis-available flag is set only when the library was imported, Redis is
\* enabled and the ping succeeded, and while the flag is not set no get, set
\* or delete makes a Redis call.
C22_InitializeDegrades ==
    cs.pc = "ready" =>
        /\ ~cs.raised
        /\ redisAvailable => cs.pinged /\ cs.lib /\ cs.enabled /\ cs.client
        /\ ~redisAvailable => cs.contacts = 0 /\ redis[TheKey] = NoEntry

\* the ping failed after the client was created, and three calls have been
\* served without Redis
C22_Witness ==
    /\ cs.pc = "ready" /\ cs.lib /\ cs.enabled /\ cs.client /\ ~cs.pinged
    /\ ~redisAvailable
    /\ cs.calls = 3 /\ cs.contacts = 0
    /\ cs.call = "get" /\ cs.ret # NoUser

\* C28: a get returns nothing or the value of the latest set that no delete
\* has followed: never a value that was deleted or that a later set replaced.
C28_NoResurrection ==
    (cs.pc = "ready" /\ cs.call = "get" /\ cs.ret # NoUser) => cs.ret = cs.latest

\* C23: with a secret token configured, a request whose header is missing or
\* is not the token is answered 401 with its body never read and its update
\* never fed to the dispatcher: no handler runs for it.
C23_SecretRejected ==
    (wh.pc # "idle" /\ wh.requests > 0 /\ Truthy(wh.token) /\ wh.header # wh.token)
    => /\ wh.pc = "responded"
       /\ wh.status = 401
       /\ ~wh.read
       /\ ~Fed
       /\ pc[Writer] \in {"idle", "done", "failed"}

\* a request without the header has been answered 401 after an earlier
\* request had been dispatched, and the store is as that one left it
C23_Witness ==
    /\ wh.pc = "responded" /\ wh.requests = 2
    /\ wh.token = "s" /\ wh.header = NoneV
    /\ ParsesAsUpdate(wh.body)
    /\ wh.status = 401
    /\ pc[Writer] = "done" /\ events = 1

\* C24: the answer is ok exactly when the secret check passed, the body
\* parsed as an update, the update was dispatched and the dispatch ended
\* without an exception; a body that does not parse is answered 400 and not
\* dispatched; a dispatch that raised is answered 500.
C24_OkIffDispatched ==
    wh.pc = "responded" =>
        /\ wh.status = 200 <=>
               /\ SecretOk(wh.token, wh.header)
               /\ ParsesAsUpdate(wh.body)
               /\ Fed
               /\ pc[Writer] = "done"
               /\ raised[Writer] = NoneV
        /\ (SecretOk(wh.token, wh.header) /\ ~ParsesAsUpdate(wh.body))
               => wh.status = 400 /\ ~Fed
        /\ (Fed /\ raised[Writer] # NoneV) => wh.status = 500

\* a dispatch whose flush raised has been answered 500, and the store has
\* nothing of it
C24_Witness ==
    /\ wh.pc = "responded" /\ wh.status = 500
    /\ Fed /\ raised[Writer] = "DBAPIError" /\ pc[Writer] = "failed"
    /\ WrittenBy(Writer) = {}

\* C30: at most one bot process spawned by the runner is alive at any time,
\* and none is alive when stop_bot has returned.
C30_OneBotProcess ==
    /\ Cardinality(Alive) <= 1
    /\ (runner.pc = "ready" /\ runner.last = "stop_bot") => Alive = {}

\* the last n entries of a sequence
LastOf(seq, n) == SubSeq(seq, Len(seq) - n + 1, Len(seq))

\* C25: once a signal has arrived while main is serving, main eventually
\* leaves; when it has left after serving, it has stopped the server or
\* cancelled polling, then closed the bot session, then disposed the engine,
\* and it has returned unless the serving task failed; every exit after the
\* bot was created closes the session and then disposes the engine.
C25_ShutdownSequence ==
    /\ (app.during ~> Exited)
    /\ [](Exited /\ app.during =>
            /\ app.trace = <<IF app.mode = "webhook"
                               THEN "stop_server" ELSE "cancel_polling",
                             "session_close", "engine_dispose">>
            /\ (app.task # "failed" => app.pc = "returned"))
    /\ [](Exited /\ app.bot =>
            /\ Len(app.trace) >= 2
            /\ LastOf(app.trace, 2) = <<"session_close", "engine_dispose">>)

C25_Witness ==
    /\ app.pc = "returned"
    /\ app.during
    /\ app.task \in {"finished", "cancelled"}
    /\ Len(app.trace) = 3

====
